---- MODULE Spec2Model ----
(***************************************************************************)
(* Model of src/azure-infrastructure.ts: the module entry point (the       *)
(* environment check, the construction of the Azure clients), the retry    *)
(* utility, the six provisioning steps of AzureInfrastructure and          *)
(* deploy().  Every call into an Azure client is a suspension point: it is *)
(* issued by one action and completed (resolved or rejected) by another.   *)
(***************************************************************************)
EXTENDS Integers, Sequences, FiniteSets, TLC

(***************************************************************************)
(* Bounds of the model (not program constants).                            *)
(***************************************************************************)
\* largest value of retry's maxRetries parameter drawn by the retry harness
MaxRetriesArg == 3

\* how far below zero the maxRetries argument of retry goes in RetrySpec
MaxNegativeArg == 1

\* the distinct failures a remote call can reject with
Errors == {"e1", "e2", "e3"}
\* the distinct responses a remote call can resolve with
Results == {"r1", "r2"}
\* the values process.env can hold for a variable after dotenv.config()
EnvValues == {"unset", "", "value", "value2"}

(***************************************************************************)
(* Program constants.                                                      *)
(***************************************************************************)
requiredEnvVars == <<"AZURE_SUBSCRIPTION_ID", "DB_PASSWORD">>

retryConfig == [maxRetries |-> 3, retryDelay |-> 5000]

Steps == 1..6

\* the operationName each step passes to retry
OperationName(i) ==
  CASE i = 1 -> "Create Resource Group"
    [] i = 2 -> "Create Virtual Network and Subnets"
    [] i = 3 -> "Create AKS Cluster"
    [] i = 4 -> "Create PostgreSQL Server"
    [] i = 5 -> "Create Storage Account and Container"
    [] i = 6 -> "Create CDN Profile and Endpoint"

\* the message of the InfrastructureError each step's catch block throws
StepFailureMessage(i) ==
  CASE i = 1 -> <<"Failed to create resource group: ", "resourceGroupName">>
    [] i = 2 -> <<"Failed to create virtual network: ", "vnetName">>
    [] i = 3 -> <<"Failed to create AKS cluster: ", "aksName">>
    [] i = 4 -> <<"Failed to create PostgreSQL server: ", "dbName">>
    [] i = 5 -> <<"Failed to create storage account: ", "storageAccountName">>
    [] i = 6 -> <<"Failed to create CDN: ", "cdnProfileName">>

\* faulty variant: the storage account and its container are created together
OperationStagesConcurrent(i) ==
  CASE i = 1 -> << {"resourceGroups.createOrUpdate"} >>
    [] i = 2 -> << {"virtualNetworks.beginCreateOrUpdateAndWait"},
                   {"subnets.app", "subnets.db"} >>
    [] i = 3 -> << {"managedClusters.beginCreateOrUpdateAndWait"} >>
    [] i = 4 -> << {"servers.beginCreateAndWait"} >>
    [] i = 5 -> << {"storageAccounts.beginCreateAndWait", "blobContainers.create"} >>
    [] i = 6 -> << {"profiles.beginCreateAndWait"},
                   {"endpoints.beginCreateAndWait"} >>

\* the remote calls of each step's operation, as successive stages; the calls
\* of one stage are issued together and awaited jointly (Promise.all)
OperationStages(i) ==
  CASE i = 1 -> << {"resourceGroups.createOrUpdate"} >>
    [] i = 2 -> << {"virtualNetworks.beginCreateOrUpdateAndWait"},
                   {"subnets.app", "subnets.db"} >>
    [] i = 3 -> << {"managedClusters.beginCreateOrUpdateAndWait"} >>
    [] i = 4 -> << {"servers.beginCreateAndWait"} >>
    [] i = 5 -> << {"storageAccounts.beginCreateAndWait"},
                   {"blobContainers.create"} >>
    [] i = 6 -> << {"profiles.beginCreateAndWait"},
                   {"endpoints.beginCreateAndWait"} >>

\* steps whose operation is the bare client call (its promise is returned);
\* the others are async closures that return nothing
ReturnsResponse(i) == i \in {1, 3, 4}

StepCalls(i) == UNION {OperationStages(i)[s] : s \in 1..Len(OperationStages(i))}

ProvisioningCalls == UNION {StepCalls(i) : i \in Steps}

ValidateCall == "subscriptions.get"

Calls == ProvisioningCalls \cup {ValidateCall}

(***************************************************************************)
(* Errors.  cause is <<>> (undefined) or a one-element sequence.           *)
(***************************************************************************)
\* a failure raised by an Azure client
RemoteError(e) == [name |-> "Error", message |-> <<e>>, cause |-> <<>>]

InfrastructureError(message, cause) ==
  [name |-> "InfrastructureError", message |-> message, cause |-> cause]

\* template-literal rendering of a number
NumStr(n) ==
  CASE n = -2 -> "-2" [] n = -1 -> "-1" [] n = 0 -> "0" [] n = 1 -> "1" [] n = 2 -> "2" [] n = 3 -> "3"
    [] n = 4 -> "4" [] n = 5 -> "5" [] n = 6 -> "6" [] OTHER -> "many"

\* `Operation ${operationName} failed after ${maxRetries} attempts`
RetryFailureMessage(operationName, n) ==
  <<"Operation ", operationName, " failed after ", NumStr(n), " attempts">>

(***************************************************************************)
(* Configuration and console output.  A printed line is a template: its    *)
(* text is a tuple of literal parts and names of config fields, which      *)
(* Render replaces by the fields' values; err is the error object printed  *)
(* after the text (<<>> if none).                                          *)
(***************************************************************************)
\* lines 24-41 (the optional overrides RESOURCE_GROUP_NAME, LOCATION,
\* DB_USERNAME and STORAGE_ACCOUNT_NAME are taken as unset)
config(e) ==
  [subscriptionId     |-> e["AZURE_SUBSCRIPTION_ID"],
   resourceGroupName  |-> "ar-vr-ecommerce-rg",
   location           |-> "eastus",
   vnetName           |-> "ar-vr-ecommerce-vnet",
   vnetAddressSpace   |-> "10.0.0.0/16",
   appSubnetName      |-> "app-subnet",
   appSubnetPrefix    |-> "10.0.1.0/24",
   dbSubnetName       |-> "db-subnet",
   dbSubnetPrefix     |-> "10.0.2.0/24",
   aksName            |-> "ar-vr-ecommerce-aks",
   dbName             |-> "ar-vr-ecommerce-db",
   dbUsername         |-> "adminuser",
   dbPassword         |-> e["DB_PASSWORD"],
   storageAccountName |-> "arvrecommerceassets",
   cdnProfileName     |-> "arvrecommercecdn",
   cdnEndpointName    |-> "arvrecommerceendpoint"]

Line(text) == [text |-> text, err |-> <<>>]

\* lines 356-357
BannerLines ==
  << Line(<<"AR/VR E-commerce Infrastructure Deployment">>),
     Line(<<"=========================================">>) >>

\* lines 321-322
DeployStartLines ==
  << Line(<<"Starting infrastructure deployment...">>),
     Line(<<"Validating Azure connection...">>) >>

\* line 112
ConnectedLine == Line(<<"Successfully connected to Azure">>)

\* line 344
DeployCompletedLine == Line(<<"Infrastructure deployment completed successfully!">>)

\* what deploy prints before it calls step i (lines 325-341)
StepHeading(i) ==
  CASE i = 1 -> <<Line(<<"Deployment steps:">>), Line(<<"1. Creating Resource Group">>)>>
    [] i = 2 -> <<Line(<<"2. Creating Virtual Network">>)>>
    [] i = 3 -> <<Line(<<"3. Creating AKS Cluster">>)>>
    [] i = 4 -> <<Line(<<"4. Creating PostgreSQL Server">>)>>
    [] i = 5 -> <<Line(<<"5. Creating Storage Account">>)>>
    [] i = 6 -> <<Line(<<"6. Creating CDN">>)>>

\* faulty variant: the database step prints the administrator password
StepFirstLineWithPassword(i) ==
  CASE i = 1 -> Line(<<"Creating resource group: ", "resourceGroupName">>)
    [] i = 2 -> Line(<<"Creating virtual network: ", "vnetName">>)
    [] i = 3 -> Line(<<"Creating AKS cluster: ", "aksName">>)
    [] i = 4 -> Line(<<"Creating PostgreSQL server: ", "dbName", " ", "dbPassword">>)
    [] i = 5 -> Line(<<"Creating storage account: ", "storageAccountName">>)
    [] i = 6 -> Line(<<"Creating CDN profile: ", "cdnProfileName">>)

\* the first line of step i (lines 119, 134, 180, 212, 241, 278)
StepFirstLine(i) ==
  CASE i = 1 -> Line(<<"Creating resource group: ", "resourceGroupName">>)
    [] i = 2 -> Line(<<"Creating virtual network: ", "vnetName">>)
    [] i = 3 -> Line(<<"Creating AKS cluster: ", "aksName">>)
    [] i = 4 -> Line(<<"Creating PostgreSQL server: ", "dbName">>)
    [] i = 5 -> Line(<<"Creating storage account: ", "storageAccountName">>)
    [] i = 6 -> Line(<<"Creating CDN profile: ", "cdnProfileName">>)

StepStartLines(i) == Append(StepHeading(i), StepFirstLine(i))

\* what the operation of step i prints when its stage s has resolved
\* (lines 148-151, 170, 257, 268, 292, 310)
StageDoneLines(i, s) ==
  CASE i = 2 /\ s = 1 -> <<Line(<<"Virtual network '", "vnetName", "' created.">>),
                           Line(<<"Creating subnets...">>)>>
    [] i = 2 /\ s = 2 -> <<Line(<<"Subnets created successfully.">>)>>
    [] i = 5 /\ s = 1 -> <<Line(<<"Storage account '", "storageAccountName",
                                  "' created.">>)>>
    [] i = 5 /\ s = 2 -> <<Line(<<"Storage container 'assets' created successfully.">>)>>
    [] i = 6 /\ s = 1 -> <<Line(<<"CDN profile '", "cdnProfileName", "' created.">>)>>
    [] i = 6 /\ s = 2 -> <<Line(<<"CDN endpoint '", "cdnEndpointName",
                                  "' created successfully.">>)>>
    [] OTHER -> <<>>

\* what step i prints after retry returned (lines 127, 205, 234)
StepDoneLines(i) ==
  CASE i = 1 -> <<Line(<<"Resource group '", "resourceGroupName",
                         "' created successfully.">>)>>
    [] i = 3 -> <<Line(<<"AKS cluster '", "aksName", "' created successfully.">>)>>
    [] i = 4 -> <<Line(<<"PostgreSQL server '", "dbName", "' created successfully.">>)>>
    [] OTHER -> <<>>

\* line 70: console.warn(`Attempt ${attempt}/${maxRetries} failed for ...:`, error)
AttemptFailedLine(a, m, operationName, e) ==
  [text |-> <<"Attempt ", NumStr(a), "/", NumStr(m), " failed for ", operationName, ":">>,
   err |-> <<RemoteError(e)>>]

\* line 73: `Retrying in ${retryConfig.retryDelay/1000} seconds...`
RetryingLine ==
  Line(<<"Retrying in ", NumStr(retryConfig.retryDelay \div 1000), " seconds...">>)

\* a template tuple with the config field names replaced by their values
RenderText(text, cfg) ==
  [k \in DOMAIN text |-> IF text[k] \in DOMAIN cfg THEN cfg[text[k]] ELSE text[k]]

\* an error object as the console prints it under configuration cfg: its
\* message and, through the cause chain, the messages of its causes
RECURSIVE RenderError(_, _)
RenderError(error, cfg) ==
  [name    |-> error.name,
   message |-> RenderText(error.message, cfg),
   cause   |-> [k \in DOMAIN error.cause |-> RenderError(error.cause[k], cfg)]]

\* a printed line as it appears on the console under configuration cfg
Render(line, cfg) ==
  [text |-> RenderText(line.text, cfg),
   err  |-> [k \in DOMAIN line.err |-> RenderError(line.err[k], cfg)]]


VARIABLES
  env,           \* process.env restricted to requiredEnvVars
  pc,            \* position of the main control flow
  exitCode,      \* -1 while the process runs, else its exit status
  clients,       \* TRUE once the constructor has built the Azure clients
  connection,    \* outcome of subscriptions.get: unknown, ok, failed
  phase,         \* pipeline state: NotStarted, Validating, Running, Succeeded, Failed
  stepIndex,     \* the step deploy() is in (0 before the first)
  started,       \* the steps deploy() has started, in order
  stepDone,      \* stepDone[i]: step i returned normally
  stepRuns,      \* stepRuns[i]: how often step i was invoked
  op,            \* the step whose operation retry is running
  maxRetries,    \* retry's maxRetries parameter
  attempt,       \* retry's loop variable
  lastError,     \* retry's lastError (<<>> is undefined)
  history,       \* events of the current retry call
  stage,         \* stage of the operation being awaited
  pending,       \* calls of the current stage still in flight
  orphans,       \* calls in flight that nothing awaits any more, each with
                 \* the attempt that issued it
  callState,     \* callState[c]: call c in the current attempt of the operation:
                 \* idle, inflight, resolved, rejected
  retValue,      \* what retry returned
  thrown,        \* the error being propagated (<<>> if none)
  issued,        \* issued[c]: how often call c was issued in the current retry call
  everIssued,    \* the calls issued so far
  created,       \* calls that have succeeded remotely
  stderrMissing, \* the missing variables printed by the environment check
  stderrErrors,  \* the errors printed by deploy's catch block
  attemptsTotal, \* the operation attempts made since the process began, as
                 \* counted by retryLoopCounted (0 where nothing counts them)
  log            \* the lines printed to the console since the current step
                 \* began (before the first step: since the process began)

vars == <<env, pc, exitCode, clients, connection, phase, stepIndex, started, stepDone,
          stepRuns, op, maxRetries, attempt, lastError, history, stage, pending,
          orphans, callState, retValue, thrown, issued, everIssued, created, stderrMissing,
          stderrErrors, log, attemptsTotal>>

pipelineVars == <<phase, stepIndex, started, stepDone, stepRuns>>
retryVars == <<op, maxRetries, attempt, lastError, history, attemptsTotal>>
remoteVars == <<stage, pending, orphans, callState, issued, everIssued, created>>
outVars == <<stderrMissing, stderrErrors, log>>

(***************************************************************************)
(* Helpers translated from the code's conditions.                          *)
(***************************************************************************)
\* !process.env[envVar] is false exactly for a non-empty string
Truthy(v) == v \notin {"unset", ""}

\* faulty variant: only the first required variable is checked
missingEnvVarsFirstOnly(e) ==
  SelectSeq(SubSeq(requiredEnvVars, 1, 1), LAMBDA v : ~Truthy(e[v]))

\* requiredEnvVars.filter(envVar => !process.env[envVar])
missingEnvVars(e) == SelectSeq(requiredEnvVars, LAMBDA v : ~Truthy(e[v]))

\* faulty variant: the loop runs one attempt more than maxRetries
LoopContinuesOnceMore(a, m) == a <= m + 1

\* faulty variant: the operation is attempted at least once
LoopContinuesAtLeastOnce(a, m) == a = 1 \/ a <= m

\* faulty variant: the loop stops one attempt early
LoopContinuesStrict(a, m) == a < m

\* for (...; attempt <= maxRetries; ...)
LoopContinues(a, m) == a <= m

\* faulty variant: a delay follows the final failed attempt too
ShouldDelayAlways(a, m) == a <= m

\* if (attempt < maxRetries)
ShouldDelay(a, m) == a < m

\* return await operation(): what the operation of step i resolves with when
\* its last call resolved with response r
OperationResult(i, r) == IF ReturnsResponse(i) THEN r ELSE "undefined"

Event(ev, n, val) == [ev |-> ev, n |-> n, val |-> val]

\* issuing the calls of set cs: one more of each
Issue(cs) == [c \in Calls |-> IF c \in cs THEN issued[c] + 1 ELSE issued[c]]

\* the calls of set cs lose their awaiter
Abandon(cs) == orphans \cup {<<c, attempt>> : c \in cs}

NoOrphans == orphans = {}

(***************************************************************************)
(* Initial states.                                                         *)
(***************************************************************************)
InitCommon ==
  /\ exitCode = -1
  /\ connection = "unknown"
  /\ phase = "NotStarted"
  /\ stepIndex = 0
  /\ started = <<>>
  /\ stepDone = [i \in Steps |-> FALSE]
  /\ stepRuns = [i \in Steps |-> 0]
  /\ attempt = 1
  /\ lastError = <<>>
  /\ history = <<>>
  /\ attemptsTotal = 0
  /\ stage = 0
  /\ pending = {}
  /\ orphans = {}
  /\ callState = [c \in Calls |-> "idle"]
  /\ retValue = "none"
  /\ thrown = <<>>
  /\ issued = [c \in Calls |-> 0]
  /\ everIssued = {}
  /\ created = {}
  /\ stderrMissing = <<>>
  /\ log = <<>>
  /\ stderrErrors = <<>>

\* the process as node starts it, in any environment
Init ==
  /\ InitCommon
  /\ env \in [{requiredEnvVars[k] : k \in 1..Len(requiredEnvVars)} -> EnvValues]
  /\ pc = "main"
  /\ clients = FALSE
  /\ op = 0
  /\ maxRetries = retryConfig.maxRetries

\* retry called on its own: any step's operation, any maxRetries argument
InitRetry ==
  /\ InitCommon
  /\ env = [v \in {requiredEnvVars[k] : k \in 1..Len(requiredEnvVars)} |-> "value"]
  /\ pc = "retry_loop"
  /\ clients = TRUE
  /\ op \in Steps
  /\ maxRetries \in -MaxNegativeArg..MaxRetriesArg

(***************************************************************************)
(* Module entry point.                                                     *)
(***************************************************************************)
\* lines 13-21: the environment check
CheckEnv ==
  /\ pc = "main"
  /\ IF Len(missingEnvVars(env)) > 0
       THEN /\ stderrMissing' = missingEnvVars(env)
            /\ exitCode' = 1
            /\ pc' = "exited"
       ELSE /\ pc' = "construct"
            /\ UNCHANGED <<stderrMissing, exitCode>>
  /\ UNCHANGED <<env, clients, connection, pipelineVars, retryVars,
                 remoteVars, retValue, thrown, stderrErrors, log>>

\* lines 94-106 and 358: the constructor builds the clients
Construct ==
  /\ pc = "construct"
  /\ clients' = TRUE
  /\ pc' = "deploy"
  /\ UNCHANGED <<env, exitCode, connection, pipelineVars, retryVars,
                 remoteVars, retValue, thrown, stderrMissing, stderrErrors>>
  /\ log' = log \o BannerLines

\* lines 103-105: a client constructor throws; the InfrastructureError is
\* uncaught at module level and node ends the process with status 1
ConstructFails ==
  /\ pc = "construct"
  /\ \E e \in Errors :
       thrown' = <<InfrastructureError(<<"Failed to initialize Azure clients">>,
                                       <<RemoteError(e)>>)>>
  /\ exitCode' = 1
  /\ pc' = "exited"
  /\ UNCHANGED <<env, clients, connection, pipelineVars, retryVars,
                 remoteVars, retValue, outVars>>

(***************************************************************************)
(* deploy() and validateAzureConnection().                                 *)
(***************************************************************************)
\* lines 319-323 and 111: deploy starts and issues subscriptions.get
deploy ==
  /\ pc = "deploy"
  /\ phase' = "Validating"
  /\ pending' = {ValidateCall}
  /\ issued' = Issue({ValidateCall})
  /\ everIssued' = everIssued \cup {ValidateCall}
  /\ pc' = "validate_wait"
  /\ UNCHANGED <<env, exitCode, clients, connection, stepIndex, started, stepDone, stepRuns,
                 retryVars, stage, orphans, callState, created, retValue, thrown, stderrMissing, stderrErrors>>
  /\ log' = log \o DeployStartLines

\* lines 111-112: subscriptions.get resolves
validateAzureConnection ==
  /\ pc = "validate_wait"
  /\ pending = {ValidateCall}
  /\ connection' = "ok"
  /\ pending' = {}
  /\ pc' = "next_step"
  /\ UNCHANGED <<env, exitCode, clients, pipelineVars, retryVars, stage, orphans, callState,
                 issued, everIssued, created, retValue, thrown, stderrMissing, stderrErrors>>
  /\ log' = Append(log, ConnectedLine)

\* faulty variant: the failed connectivity check is only logged
validateAzureConnectionIgnored ==
  /\ pc = "validate_wait"
  /\ pending = {ValidateCall}
  /\ connection' = "failed"
  /\ pending' = {}
  /\ pc' = "next_step"
  /\ UNCHANGED <<env, exitCode, clients, pipelineVars, retryVars, stage, orphans, callState,
                 issued, everIssued, created, retValue, thrown, outVars>>

\* faulty variant: the connectivity check is run through retry
validateAzureConnectionRetried ==
  /\ pc = "validate_wait"
  /\ pending = {ValidateCall}
  /\ IF issued[ValidateCall] < retryConfig.maxRetries
       THEN /\ issued' = Issue({ValidateCall})
            /\ log' = Append(log, RetryingLine)
            /\ UNCHANGED <<thrown, connection, pending, pc>>
       ELSE /\ \E e \in Errors :
                 thrown' = <<InfrastructureError(
                               <<"Failed to connect to Azure. Please check your credentials.">>,
                               <<RemoteError(e)>>)>>
            /\ connection' = "failed"
            /\ pending' = {}
            /\ pc' = "deploy_catch"
            /\ UNCHANGED <<issued, log>>
  /\ UNCHANGED <<env, exitCode, clients, pipelineVars, retryVars, stage, orphans, callState,
                 everIssued, created, retValue, stderrMissing, stderrErrors>>

\* lines 113-115: subscriptions.get rejects
validateAzureConnectionFails ==
  /\ pc = "validate_wait"
  /\ pending = {ValidateCall}
  /\ \E e \in Errors :
       thrown' = <<InfrastructureError(
                     <<"Failed to connect to Azure. Please check your credentials.">>,
                     <<RemoteError(e)>>)>>
  /\ connection' = "failed"
  /\ pending' = {}
  /\ pc' = "deploy_catch"
  /\ UNCHANGED <<env, exitCode, clients, pipelineVars, retryVars, stage, orphans, callState,
                 issued, everIssued, created, retValue, outVars>>

\* faulty variant: the database step is called before the cluster step
NextStepAfterSwapped(i) ==
  CASE i = 2 -> 4 [] i = 4 -> 3 [] i = 3 -> 5 [] OTHER -> i + 1

\* faulty variant: the cluster step is left out
NextStepAfterSkip(i) == IF i = 2 THEN 4 ELSE i + 1

\* the step deploy() calls after step i returned (lines 327-342)
NextStepAfter(i) == i + 1

\* lines 325-342 with 118-121, 133-136, ...: deploy calls step i, which calls retry
createStep(i) ==
  /\ pc = "next_step"
  /\ i = NextStepAfter(stepIndex)
  /\ phase' = "Running"
  /\ stepIndex' = i
  /\ started' = Append(started, i)
  /\ stepRuns' = [stepRuns EXCEPT ![i] = @ + 1]
  /\ op' = i
  /\ maxRetries' = retryConfig.maxRetries
  /\ attempt' = 1
  /\ lastError' = <<>>
  /\ history' = <<>>
  /\ retValue' = "none"
  /\ issued' = [c \in Calls |-> IF c \in ProvisioningCalls THEN 0 ELSE issued[c]]
  /\ pc' = "retry_loop"
  /\ UNCHANGED <<env, exitCode, clients, connection, stepDone, stage, pending, orphans, callState,
                 everIssued, created, thrown, stderrMissing, stderrErrors>>
  /\ log' = StepStartLines(i)
  /\ UNCHANGED attemptsTotal

\* line 344: all six steps returned
deployCompleted ==
  /\ pc = "next_step"
  /\ stepIndex = 6
  /\ phase' = "Succeeded"
  /\ pc' = "deploy_done"
  /\ UNCHANGED <<env, exitCode, clients, connection, stepIndex, started, stepDone, stepRuns,
                 retryVars, remoteVars, retValue, thrown,
                 stderrMissing, stderrErrors>>
  /\ log' = Append(log, DeployCompletedLine)

\* what deploy's catch block prints: the error, and its cause when the error
\* is an InfrastructureError with a cause (lines 346-349)
Printed(error) ==
  <<error>> \o (IF error.name = "InfrastructureError" /\ error.cause # <<>>
                  THEN error.cause ELSE <<>>)

\* the status deploy's catch block exits with (line 350)
FailureExitCode == 1

\* faulty variant: the catch block prints the error and does not call process.exit
deployCatchReturns ==
  /\ pc = "deploy_catch"
  /\ stderrErrors' = Printed(thrown[1])
  /\ phase' = "Failed"
  /\ pc' = "deploy_done"
  /\ UNCHANGED <<env, exitCode, clients, connection, stepIndex, started, stepDone,
                 stepRuns, retryVars, remoteVars, retValue, thrown, stderrMissing, log>>

\* faulty variant: the catch block rolls back by deleting the resource group
deployCatchRollback ==
  /\ pc = "deploy_catch"
  /\ stderrErrors' = Printed(thrown[1])
  /\ phase' = "Failed"
  /\ everIssued' = everIssued \cup {"resourceGroups.beginDeleteAndWait"}
  /\ created' = {}
  /\ exitCode' = FailureExitCode
  /\ pc' = "exited"
  /\ UNCHANGED <<env, clients, connection, stepIndex, started, stepDone, stepRuns,
                 retryVars, stage, pending, orphans, callState, issued, retValue,
                 thrown, stderrMissing, log>>

\* lines 345-351: deploy's catch block
deployCatch ==
  /\ pc = "deploy_catch"
  /\ stderrErrors' = Printed(thrown[1])
  /\ phase' = "Failed"
  /\ exitCode' = FailureExitCode
  /\ pc' = "exited"
  /\ UNCHANGED <<env, clients, connection, stepIndex, started, stepDone, stepRuns,
                 retryVars, remoteVars, retValue, thrown,
                 stderrMissing, log>>

\* deploy() resolved and nothing is in flight: node ends the process, status 0
ProcessEnd ==
  /\ pc = "deploy_done"
  /\ NoOrphans
  /\ exitCode' = 0
  /\ pc' = "exited"
  /\ UNCHANGED <<env, clients, connection, pipelineVars, retryVars,
                 remoteVars, retValue, thrown, outVars>>

(***************************************************************************)
(* retry (lines 58-83) and the operations it runs.                         *)
(***************************************************************************)
\* the error retry throws on exhaustion (lines 79-82)
RetryError(operationName, n, last) ==
  InfrastructureError(RetryFailureMessage(operationName, n), last)

\* faulty variant: only the first failure is remembered
KeepFirstError(old, e) == IF old = <<>> THEN <<RemoteError(e)>> ELSE old

\* lastError = error as Error (line 69)
NewLastError(old, e) == <<RemoteError(e)>>

\* faulty variant: the operation is awaited but its result is not returned
RetryReturnNothing(r) == "undefined"

\* what retry returns when the operation resolved with r (line 67)
RetryReturn(r) == r

\* faulty variant: a new attempt resumes at the call that failed
ResumeStage(s, a) == IF a = 1 THEN 1 ELSE s

\* the stage an invocation of the operation starts with, after stage s was the
\* last one of the previous attempt: the closure runs from its first call
\* (lines 137-138, 244-245, 281-282)
StartStage(s, a) == 1

\* lines 65-67 and 78-82: the head of the loop; either the operation is
\* invoked, which issues the calls of its first stage, or retry throws
retryLoop ==
  /\ pc = "retry_loop"
  /\ IF LoopContinues(attempt, maxRetries)
       THEN LET first == OperationStages(op)[StartStage(stage, attempt)] IN
            /\ stage' = StartStage(stage, attempt)
            /\ pending' = first
            /\ issued' = Issue(first)
            /\ everIssued' = everIssued \cup first
            /\ callState' = [c \in Calls |-> IF c \in first THEN "inflight" ELSE "idle"]
            /\ history' = Append(history, Event("attempt", attempt, ""))
            /\ pc' = "op_wait"
            /\ UNCHANGED thrown
       ELSE /\ thrown' = <<RetryError(OperationName(op), maxRetries, lastError)>>
            /\ pc' = "retry_threw"
            /\ UNCHANGED <<stage, pending, issued, everIssued, callState, history>>
  /\ UNCHANGED <<env, exitCode, clients, connection, pipelineVars, op, maxRetries,
                 attempt, lastError, orphans, created, retValue, outVars>>

\* faulty variant: the stage is over as soon as one of its calls resolved
StageCompleteAny(p, c) == TRUE

\* Promise.all (and a single await) resolves when the resolving call c is the
\* last one of the awaited calls p (lines 152-169)
StageComplete(p, c) == p = {c}

\* an awaited call c resolves with r; the operation waits for the rest of the
\* stage, goes on to its next stage, or resolves, and then retry returns
callResolves(c, r) ==
  /\ pc = "op_wait"
  /\ c \in pending
  /\ created' = created \cup {c}
  /\ IF ~StageComplete(pending, c)
       THEN /\ pending' = pending \ {c}
            /\ callState' = [callState EXCEPT ![c] = "resolved"]
            /\ UNCHANGED <<stage, issued, everIssued, retValue, history, pc>>
       ELSE IF stage < Len(OperationStages(op))
         THEN /\ stage' = stage + 1
              /\ pending' = OperationStages(op)[stage + 1]
              /\ issued' = Issue(OperationStages(op)[stage + 1])
              /\ everIssued' = everIssued \cup OperationStages(op)[stage + 1]
              /\ callState' = [d \in Calls |->
                                 IF d = c THEN "resolved"
                                 ELSE IF d \in OperationStages(op)[stage + 1]
                                   THEN "inflight" ELSE callState[d]]
              /\ UNCHANGED <<retValue, history, pc>>
         ELSE /\ pending' = {}
              /\ callState' = [callState EXCEPT ![c] = "resolved"]
              /\ retValue' = RetryReturn(OperationResult(op, r))
              /\ history' = Append(history, Event("ok", attempt, OperationResult(op, r)))
              /\ pc' = "retry_returned"
              /\ UNCHANGED <<stage, issued, everIssued>>
  /\ UNCHANGED <<env, exitCode, clients, connection, pipelineVars, op,
                 maxRetries, attempt, lastError, orphans, thrown, stderrMissing, stderrErrors>>
  /\ log' = log \o (IF StageComplete(pending, c)
                      THEN StageDoneLines(op, stage) ELSE <<>>)
  /\ UNCHANGED attemptsTotal

\* faulty variant: the stage waits for all of its calls to settle before it
\* rejects (Promise.allSettled followed by a check)
callRejectsSettled(c, e) ==
  /\ pc = "op_wait"
  /\ c \in pending
  /\ callState' = [callState EXCEPT ![c] = "rejected"]
  /\ lastError' = NewLastError(lastError, e)
  /\ pending' = pending \ {c}
  /\ IF pending # {c}
       THEN UNCHANGED <<history, pc, attempt>>
       ELSE IF ShouldDelay(attempt, maxRetries)
         THEN /\ history' = history \o <<Event("fail", attempt, e),
                                         Event("delay", attempt, "")>>
              /\ pc' = "retry_delay"
              /\ UNCHANGED attempt
         ELSE /\ history' = Append(history, Event("fail", attempt, e))
              /\ attempt' = attempt + 1
              /\ pc' = "retry_loop"
  /\ UNCHANGED <<env, exitCode, clients, connection, pipelineVars, op, maxRetries,
                 stage, orphans, issued, everIssued, created, retValue, thrown,
                 stderrMissing, stderrErrors>>
  /\ log' = log \o (IF pending = {c}
                      THEN <<AttemptFailedLine(attempt, maxRetries, OperationName(op), e)>>
                      ELSE <<>>)
  /\ UNCHANGED attemptsTotal

\* an awaited call c rejects with e: the operation rejects at once (the other
\* calls of the stage stay in flight, unawaited) and retry's catch block runs
\* (lines 68-76)
callRejects(c, e) ==
  /\ pc = "op_wait"
  /\ c \in pending
  /\ pending' = {}
  /\ orphans' = Abandon(pending \ {c})
  /\ callState' = [callState EXCEPT ![c] = "rejected"]
  /\ lastError' = NewLastError(lastError, e)
  /\ IF ShouldDelay(attempt, maxRetries)
       THEN /\ history' = history \o <<Event("fail", attempt, e),
                                       Event("delay", attempt, "")>>
            /\ pc' = "retry_delay"
            /\ UNCHANGED attempt
       ELSE /\ history' = Append(history, Event("fail", attempt, e))
            /\ attempt' = attempt + 1
            /\ pc' = "retry_loop"
  /\ UNCHANGED <<env, exitCode, clients, connection, pipelineVars, op, maxRetries,
                 stage, issued, everIssued, created, retValue, thrown, stderrMissing, stderrErrors>>
  /\ log' = log \o <<AttemptFailedLine(attempt, maxRetries, OperationName(op), e)>>
           \o (IF ShouldDelay(attempt, maxRetries) THEN <<RetryingLine>> ELSE <<>>)
  /\ UNCHANGED attemptsTotal

\* line 74: the delay's timer fires; the loop goes to its next iteration
delayElapsed ==
  /\ pc = "retry_delay"
  /\ attempt' = attempt + 1
  /\ pc' = "retry_loop"
  /\ UNCHANGED <<env, exitCode, clients, connection, pipelineVars, op,
                 maxRetries, lastError, history, remoteVars, retValue, thrown,
                 outVars>>
  /\ UNCHANGED attemptsTotal

IsAttempt(ev) == ev.ev = "attempt"

\* a call that nothing awaits any more completes while the process runs
orphanCompletes(o, ok) ==
  /\ pc # "exited"
  /\ o \in orphans
  /\ orphans' = orphans \ {o}
  /\ created' = IF ok THEN created \cup {o[1]} ELSE created
  /\ callState' =
       IF o[1] \in StepCalls(op) /\ o[2] = Len(SelectSeq(history, IsAttempt))
         THEN [callState EXCEPT ![o[1]] = IF ok THEN "resolved" ELSE "rejected"]
         ELSE callState
  /\ UNCHANGED <<env, pc, exitCode, clients, connection, pipelineVars, retryVars, stage,
                 pending, issued, everIssued, retValue, thrown, outVars>>

(***************************************************************************)
(* The steps' continuations after retry.                                   *)
(***************************************************************************)
\* faulty variant: the step's error does not carry retry's error
StepErrorNoCause(i, error) == InfrastructureError(StepFailureMessage(i), <<>>)

\* the error a step's catch block throws (lines 129, 175, 207, 236, 273, 315)
StepError(i, error) == InfrastructureError(StepFailureMessage(i), <<error>>)

\* retry returned: the step logs and returns to deploy (lines 127, 170, ...)
stepReturns ==
  /\ pc = "retry_returned"
  /\ stepIndex = op
  /\ stepDone' = [stepDone EXCEPT ![op] = TRUE]
  /\ pc' = "next_step"
  /\ UNCHANGED <<env, exitCode, clients, connection, phase, stepIndex, started, stepRuns,
                 retryVars, remoteVars, retValue, thrown,
                 stderrMissing, stderrErrors>>
  /\ log' = log \o StepDoneLines(op)

\* faulty variant: the step's catch block logs the error and returns normally
stepCatchSwallows ==
  /\ pc = "retry_threw"
  /\ stepIndex = op
  /\ pc' = "next_step"
  /\ UNCHANGED <<env, exitCode, clients, connection, pipelineVars, retryVars,
                 remoteVars, retValue, thrown, outVars>>

\* retry threw: the step's catch block wraps the error and rethrows
stepCatch ==
  /\ pc = "retry_threw"
  /\ stepIndex = op
  /\ thrown' = <<StepError(op, thrown[1])>>
  /\ pc' = "deploy_catch"
  /\ UNCHANGED <<env, exitCode, clients, connection, pipelineVars, retryVars, remoteVars, retValue, outVars>>

(***************************************************************************)
(* Specifications.                                                         *)
(***************************************************************************)
RetryNext ==
  \/ retryLoop /\ UNCHANGED attemptsTotal
  \/ \E c \in ProvisioningCalls, r \in Results : callResolves(c, r)
  \/ \E c \in ProvisioningCalls, e \in Errors : callRejects(c, e)
  \/ delayElapsed
  \/ \E o \in orphans, ok \in BOOLEAN : orphanCompletes(o, ok)

Next ==
  \/ CheckEnv
  \/ Construct
  \/ ConstructFails
  \/ deploy
  \/ validateAzureConnection
  \/ validateAzureConnectionFails
  \/ \E i \in Steps : createStep(i)
  \/ deployCompleted
  \/ deployCatch
  \/ ProcessEnd
  \/ retryLoop /\ UNCHANGED attemptsTotal
  \/ \E c \in ProvisioningCalls, r \in Results : callResolves(c, r)
  \/ \E c \in ProvisioningCalls, e \in Errors : callRejects(c, e)
  \/ delayElapsed
  \/ \E o \in orphans, ok \in BOOLEAN : orphanCompletes(o, ok)
  \/ stepReturns
  \/ stepCatch

\* the whole process
Spec == Init /\ [][Next]_vars

\* one iteration of retry's loop, with the attempt it makes (if any) counted
retryLoopCounted ==
  /\ retryLoop
  /\ attemptsTotal' = attemptsTotal + Len(history') - Len(history)

\* a step of the program other than the completion of a remote call or timer
LocalStep ==
  \/ CheckEnv
  \/ Construct
  \/ ConstructFails
  \/ deploy
  \/ \E i \in Steps : createStep(i)
  \/ deployCompleted
  \/ deployCatch
  \/ ProcessEnd
  \/ retryLoopCounted
  \/ stepReturns
  \/ stepCatch

\* an awaited remote call completes, successfully or not
AwaitedCallCompletes ==
  \/ validateAzureConnection
  \/ validateAzureConnectionFails
  \/ \E c \in ProvisioningCalls, r \in Results : callResolves(c, r)
  \/ \E c \in ProvisioningCalls, e \in Errors : callRejects(c, e)

FairNext ==
  \/ LocalStep
  \/ AwaitedCallCompletes
  \/ delayElapsed
  \/ \E o \in orphans, ok \in BOOLEAN : orphanCompletes(o, ok)

\* the process in an environment with each required variable unset or set
InitFair ==
  /\ InitCommon
  /\ env \in [{requiredEnvVars[k] : k \in 1..Len(requiredEnvVars)} -> {"unset", "value"}]
  /\ pc = "main"
  /\ clients = FALSE
  /\ op = 0
  /\ maxRetries = retryConfig.maxRetries

\* the whole process when the event loop runs every continuation that is
\* ready, every awaited remote call eventually completes, every call nothing
\* awaits eventually completes, and every timer fires
FairSpec ==
  /\ InitFair
  /\ [][FairNext]_vars
  /\ WF_vars(LocalStep)
  /\ WF_vars(AwaitedCallCompletes)
  /\ WF_vars(delayElapsed)
  /\ WF_vars(\E o \in orphans, ok \in BOOLEAN : orphanCompletes(o, ok))

\* retry on its own, for any maxRetries argument
RetrySpec == InitRetry /\ [][RetryNext]_vars

(***************************************************************************)
(* Observations used by the properties.                                    *)
(***************************************************************************)
\* the positions of the events of kind ev in the current retry call
EventsOf(ev) == {k \in 1..Len(history) : history[k].ev = ev}

CountEv(ev) == Cardinality(EventsOf(ev))

\* step N is being run by retry or has just returned from it
StepInProgress(N) ==
  stepIndex = N /\ pc \in {"retry_loop", "op_wait", "retry_delay", "retry_returned"}

\* step N was called and ended by throwing
StepFailed(N) == stepRuns[N] > 0 /\ ~stepDone[N] /\ ~StepInProgress(N)

\* a required variable is unset or empty in the environment
MandatoryKeyMissing ==
  \E k \in 1..Len(requiredEnvVars) : env[requiredEnvVars[k]] \in {"unset", ""}

(***************************************************************************)
(* C1: when step N failed on every attempt, each of the steps 1..N-1 has   *)
(* been executed exactly once (and returned), step N was executed once and *)
(* its retry exhaustion is observed (maxRetries attempts, none of them     *)
(* successful, an error thrown), and no step N+1..6 has been started and   *)
(* none of their calls issued.  Checked under Spec.                        *)
(***************************************************************************)
C1_AbortOnFailedStep ==
  \A N \in Steps :
    StepFailed(N) =>
      /\ \A j \in 1..(N - 1) : stepRuns[j] = 1 /\ stepDone[j]
      /\ stepRuns[N] = 1
      /\ stepIndex = N
      /\ CountEv("attempt") = retryConfig.maxRetries
      /\ CountEv("fail") = retryConfig.maxRetries
      /\ CountEv("ok") = 0
      /\ thrown # <<>>
      /\ \A j \in (N + 1)..6 :
           /\ stepRuns[j] = 0
           /\ StepCalls(j) \cap everIssued = {}
           /\ ~stepDone[j]

\* the database step failed for good: cluster done, storage and CDN untouched
C1_Witness ==
  /\ pc = "exited"
  /\ StepFailed(4)
  /\ stepDone[3]
  /\ phase = "Failed"

(***************************************************************************)
(* C2: when retry, called with maxRetries >= 1, throws (its operation      *)
(* failed on every attempt), it has made exactly maxRetries attempts and   *)
(* maxRetries - 1 delays, every delay stands between the failure of one    *)
(* attempt and the start of the next attempt, the last event is the        *)
(* failure of attempt maxRetries (no trailing delay), and the error thrown *)
(* is an InfrastructureError naming the operation.  Checked under          *)
(* RetrySpec, where maxRetries ranges over 0..MaxRetriesArg.               *)
(***************************************************************************)
C2_ExhaustionAttemptsAndDelays ==
  (pc = "retry_threw" /\ maxRetries >= 1) =>
    /\ CountEv("attempt") = maxRetries
    /\ CountEv("fail") = maxRetries
    /\ CountEv("ok") = 0
    /\ CountEv("delay") = maxRetries - 1
    /\ \A k \in EventsOf("delay") :
         /\ k > 1 /\ k < Len(history)
         /\ history[k - 1].ev = "fail"
         /\ history[k + 1].ev = "attempt"
         /\ history[k + 1].n = history[k - 1].n + 1
    /\ history[Len(history)].ev = "fail"
    /\ history[Len(history)].n = maxRetries
    /\ Len(thrown) = 1
    /\ thrown[1].name = "InfrastructureError"
    /\ thrown[1].message =
         <<"Operation ", OperationName(op), " failed after ", NumStr(maxRetries),
           " attempts">>

\* exhaustion with the largest maxRetries: delays were taken
C2_Witness ==
  /\ pc = "retry_threw"
  /\ maxRetries = MaxRetriesArg
  /\ CountEv("delay") = MaxRetriesArg - 1

(***************************************************************************)
(* C3: when retry returns, the operation resolved in attempt k = attempt   *)
(* with 1 <= k <= maxRetries, every earlier attempt failed, retry returns  *)
(* what attempt k resolved with, exactly k attempts were made and the      *)
(* resolution of attempt k is the last event (no attempt or delay after    *)
(* it).  Checked under RetrySpec.                                          *)
(***************************************************************************)
C3_ReturnsFirstSuccess ==
  pc = "retry_returned" =>
    LET last == history[Len(history)] IN
      /\ last.ev = "ok"
      /\ last.n = attempt
      /\ 1 <= attempt /\ attempt <= maxRetries
      /\ retValue = last.val
      /\ CountEv("ok") = 1
      /\ CountEv("attempt") = attempt
      /\ CountEv("fail") = attempt - 1
      /\ \A k \in EventsOf("fail") : history[k].n < attempt
      /\ \A k \in EventsOf("attempt") \cup EventsOf("delay") : k < Len(history)
      /\ thrown = <<>>

\* the bare client call of the cluster step resolves in the second attempt
C3_Witness ==
  /\ pc = "retry_returned"
  /\ op = 3
  /\ attempt = 2
  /\ retValue \in Results

(***************************************************************************)
(* C4: when a required environment variable (AZURE_SUBSCRIPTION_ID or      *)
(* DB_PASSWORD) is missing, no client is ever constructed, deploy() never  *)
(* starts, no step runs and no client call is ever issued; the process     *)
(* ends with status 1.  Checked under Spec.                                *)
(***************************************************************************)
C4_MissingKeyNoCalls ==
  MandatoryKeyMissing =>
    /\ ~clients
    /\ everIssued = {}
    /\ \A c \in Calls : issued[c] = 0
    /\ orphans = {}
    /\ pending = {}
    /\ phase = "NotStarted"
    /\ \A i \in Steps : stepRuns[i] = 0
    /\ pc \in {"main", "exited"}
    /\ (pc = "exited" => exitCode = 1)

\* the password is unset, the subscription is set, and the process has ended
C4_Witness ==
  /\ env["DB_PASSWORD"] = "unset"
  /\ env["AZURE_SUBSCRIPTION_ID"] = "value"
  /\ pc = "exited"
  /\ stderrMissing = <<"DB_PASSWORD">>

(***************************************************************************)
(* C5: when subscriptions.get was rejected, no provisioning step is ever   *)
(* started and no call for the resource group, network, cluster, database, *)
(* storage or CDN is ever issued; the deployment goes to Failed and the    *)
(* process ends with status 1.  Checked under Spec.                        *)
(***************************************************************************)
C5_FailedValidationNoSteps ==
  connection = "failed" =>
    /\ \A i \in Steps : stepRuns[i] = 0 /\ ~stepDone[i]
    /\ everIssued \cap ProvisioningCalls = {}
    /\ started = <<>>
    /\ stepIndex = 0
    /\ pc \in {"deploy_catch", "exited"}
    /\ phase \in {"Validating", "Failed"}
    /\ (pc = "exited" => phase = "Failed" /\ exitCode = 1)

\* the connectivity check failed and the process has ended
C5_Witness ==
  /\ connection = "failed"
  /\ pc = "exited"
  /\ everIssued = {ValidateCall}

(***************************************************************************)
(* C6: the steps start in the order 1, 2, ..., 6 after the connectivity    *)
(* check; a call of step i is issued only when the connectivity check      *)
(* succeeded and every step before i has returned successfully (so no CDN  *)
(* call before storage succeeded, no database call before the cluster      *)
(* succeeded).  Checked under Spec.                                        *)
(***************************************************************************)
C6_StepOrder ==
  /\ \A k \in 1..Len(started) : started[k] = k
  /\ started # <<>> => connection = "ok"
  /\ everIssued # {} => ValidateCall \in everIssued
  /\ \A i \in Steps :
       (StepCalls(i) \cap everIssued # {} \/ stepRuns[i] > 0) =>
         /\ connection = "ok"
         /\ \A j \in 1..(i - 1) : stepDone[j]
         /\ \A j \in 1..(i - 1) : StepCalls(j) \subseteq created
  /\ ("profiles.beginCreateAndWait" \in everIssued => stepDone[5])
  /\ ("servers.beginCreateAndWait" \in everIssued => stepDone[3])

\* the CDN profile call is in flight after the storage step returned
C6_Witness ==
  /\ stepIndex = 6
  /\ pc = "op_wait"
  /\ "profiles.beginCreateAndWait" \in pending
  /\ started = <<1, 2, 3, 4, 5, 6>>

(***************************************************************************)
(* C7: the pipeline state changes only along NotStarted -> Validating ->   *)
(* Running(1) -> ... -> Running(6) -> Succeeded, or from Validating or     *)
(* Running(i) to Failed with the step index kept; Succeeded and Failed are *)
(* never left, and once Failed no step is started and no call is issued.   *)
(* Checked under Spec as a property of every step of the program.          *)
(***************************************************************************)
C7_PipelineTransition ==
  \/ /\ phase' = phase
     /\ stepIndex' = stepIndex
  \/ /\ phase = "NotStarted" /\ phase' = "Validating"
     /\ stepIndex = 0 /\ stepIndex' = 0
  \/ /\ phase = "Validating" /\ phase' = "Running"
     /\ stepIndex = 0 /\ stepIndex' = 1
  \/ /\ phase = "Running" /\ phase' = "Running"
     /\ stepIndex < 6 /\ stepIndex' = stepIndex + 1
  \/ /\ phase = "Running" /\ phase' = "Succeeded"
     /\ stepIndex = 6 /\ stepIndex' = 6
  \/ /\ phase \in {"Validating", "Running"} /\ phase' = "Failed"
     /\ stepIndex' = stepIndex

C7_PipelineStateMachine ==
  [][ /\ C7_PipelineTransition
      /\ (phase \in {"Succeeded", "Failed"} =>
            /\ phase' = phase
            /\ stepIndex' = stepIndex
            /\ started' = started
            /\ stepRuns' = stepRuns)
      /\ (phase = "Failed" =>
            /\ everIssued' = everIssued
            /\ issued' = issued
            /\ pending' = pending) ]_vars

\* Failed was reached from Running(2), with a subnet call still in flight
C7_Witness ==
  /\ phase = "Failed"
  /\ stepIndex = 2
  /\ stepDone[1]
  /\ ~NoOrphans

(***************************************************************************)
(* C8: failures of attempts before the last are absorbed by retry.  When a *)
(* step's operation resolved in attempt k, retry made exactly k attempts   *)
(* and k - 1 delays for that step, nothing was thrown, and deploy goes on  *)
(* to the next step; deploy sees a failed step only after maxRetries       *)
(* failed attempts; and when all six steps returned the deployment is      *)
(* Succeeded with nothing reported and no failure exit.  Checked under     *)
(* Spec.                                                                   *)
(***************************************************************************)
C8_TransientFailuresAbsorbed ==
  /\ (pc \in {"retry_returned", "next_step"} /\ stepIndex >= 1) =>
       /\ 1 <= attempt /\ attempt <= retryConfig.maxRetries
       /\ CountEv("attempt") = attempt
       /\ CountEv("fail") = attempt - 1
       /\ CountEv("delay") = attempt - 1
       /\ CountEv("ok") = 1
       /\ thrown = <<>>
       /\ stderrErrors = <<>>
       /\ phase = "Running"
  /\ \A i \in 1..5 :
       stepDone[i] => \/ (stepIndex = i /\ pc = "next_step")
                      \/ stepRuns[i + 1] = 1
  /\ (stepIndex >= 1 /\ (pc \in {"retry_threw", "deploy_catch"} \/ phase = "Failed")) =>
       /\ CountEv("fail") = retryConfig.maxRetries
       /\ CountEv("ok") = 0
  /\ (\A i \in Steps : stepDone[i]) =>
       \/ (pc = "next_step" /\ phase = "Running" /\ stepIndex = 6)
       \/ /\ pc \in {"deploy_done", "exited"}
          /\ phase = "Succeeded"
          /\ stderrErrors = <<>>
          /\ exitCode \in {-1, 0}

\* the database call failed twice and resolved in the third attempt; deploy
\* is about to call the storage step
C8_Witness ==
  /\ pc = "next_step"
  /\ stepIndex = 4
  /\ stepDone[4]
  /\ attempt = 3
  /\ CountEv("delay") = 2
  /\ CountEv("attempt") = 3

(***************************************************************************)
(* C9: when a step failed for good, deploy's catch block prints the step's *)
(* error and its cause; the cause is retry's error, whose message names    *)
(* the step's operation ("Create Storage Account and Container" for the    *)
(* storage step), and that error wraps the failure of the step's last      *)
(* attempt.  Checked under Spec.                                           *)
(***************************************************************************)
C9_FailureNamesStep ==
  (phase = "Failed" /\ stepIndex >= 1) =>
    /\ Len(stderrErrors) = 2
    /\ stderrErrors[1].name = "InfrastructureError"
    /\ stderrErrors[1].message = StepFailureMessage(stepIndex)
    /\ stderrErrors[1].cause = <<stderrErrors[2]>>
    /\ stderrErrors[2].name = "InfrastructureError"
    /\ stderrErrors[2].message[1] = "Operation "
    /\ stderrErrors[2].message[2] = OperationName(stepIndex)
    /\ (stepIndex = 5 =>
          stderrErrors[2].message[2] = "Create Storage Account and Container")
    /\ history[Len(history)].ev = "fail"
    /\ stderrErrors[2].cause =
         << [name |-> "Error", message |-> <<history[Len(history)].val>>,
             cause |-> <<>>] >>

\* the storage step failed in all three attempts, the last one with another
\* error than the first
C9_Witness ==
  /\ phase = "Failed"
  /\ stepIndex = 5
  /\ CountEv("fail") = 3
  /\ history[2].val = "e1"
  /\ history[Len(history)].val = "e2"

(***************************************************************************)
(* C10: when the process has ended, its exit status is 0 exactly when all  *)
(* six steps returned successfully and 1 otherwise; in particular it is 1  *)
(* when a required variable is missing, when the connectivity check        *)
(* failed and when a step failed for good.  No failure is left behind      *)
(* without the process ending with status 1.  Checked under Spec.          *)
(***************************************************************************)
C10_ExitStatus ==
  /\ exitCode \in {-1, 0, 1}
  /\ (exitCode # -1) <=> (pc = "exited")
  /\ pc = "exited" =>
       /\ (exitCode = 0) <=> (\A i \in Steps : stepDone[i])
       /\ (MandatoryKeyMissing => exitCode = 1)
       /\ (connection = "failed" => exitCode = 1)
       /\ ((\E N \in Steps : StepFailed(N)) => exitCode = 1)
       /\ (thrown # <<>> => exitCode = 1)
  /\ (thrown # <<>> \/ stderrErrors # <<>> \/ phase = "Failed") =>
       pc \in {"retry_threw", "deploy_catch", "exited"}

\* a failure exit after the CDN step, the last one, failed for good
C10_Witness ==
  /\ pc = "exited"
  /\ exitCode = 1
  /\ StepFailed(6)
  /\ \A i \in 1..5 : stepDone[i]

(***************************************************************************)
(* C11 as stated: in the network, storage and CDN steps the first call     *)
(* (virtual network, storage account, CDN profile) is not issued again     *)
(* once it has succeeded, i.e. it is never in flight while already         *)
(* created.  The code retries the whole operation, so this fails.          *)
(***************************************************************************)
C11_FirstCallNotReissued ==
  \A i \in {2, 5, 6} :
    \A c \in OperationStages(i)[1] :
      callState[c] = "inflight" => c \notin created

(***************************************************************************)
(* C11 amended: each step passes its whole operation, all of its calls     *)
(* together, to one retry call; every attempt runs the operation from its  *)
(* first call, so the first call has been issued once per attempt (also    *)
(* after it succeeded) and a later call at most once per attempt.          *)
(* Checked under Spec.                                                     *)
(***************************************************************************)
C11_WholeOperationRetried ==
  \A i \in Steps :
    op = i =>
      /\ stepRuns[i] <= 1
      /\ \A c \in OperationStages(i)[1] : issued[c] = CountEv("attempt")
      /\ \A c \in StepCalls(i) : issued[c] <= CountEv("attempt")
      /\ \A c \in ProvisioningCalls \ StepCalls(i) : issued[c] = 0

\* the storage account was created in the first attempt, the container call
\* failed, and the storage account call is in flight again
C11_Witness ==
  /\ op = 5
  /\ "storageAccounts.beginCreateAndWait" \in created
  /\ callState["storageAccounts.beginCreateAndWait"] = "inflight"
  /\ issued["storageAccounts.beginCreateAndWait"] = 2
  /\ issued["blobContainers.create"] = 1

(***************************************************************************)
(* C12: in the storage step and in the CDN step the second call (blob      *)
(* container, CDN endpoint) has been issued in the current attempt only if *)
(* the first call of that attempt (storage account, CDN profile) has       *)
(* resolved; after a rejected first call the second call is not issued in  *)
(* that attempt, and over the step it is issued no more often than the     *)
(* first.  Checked under Spec.                                             *)
(***************************************************************************)
C12_SecondCallAfterFirst ==
  /\ \A c \in {"blobContainers.create"} :
       /\ callState[c] # "idle" =>
            callState["storageAccounts.beginCreateAndWait"] = "resolved"
       /\ c \in pending => pending = {c} /\ op = 5 /\ stage = 2
       /\ issued[c] <= issued["storageAccounts.beginCreateAndWait"]
  /\ \A c \in {"endpoints.beginCreateAndWait"} :
       /\ callState[c] # "idle" =>
            callState["profiles.beginCreateAndWait"] = "resolved"
       /\ c \in pending => pending = {c} /\ op = 6 /\ stage = 2
       /\ issued[c] <= issued["profiles.beginCreateAndWait"]
  /\ callState["storageAccounts.beginCreateAndWait"] \in {"inflight", "rejected"} =>
       callState["blobContainers.create"] = "idle"
  /\ callState["profiles.beginCreateAndWait"] \in {"inflight", "rejected"} =>
       callState["endpoints.beginCreateAndWait"] = "idle"

\* second attempt of the CDN step: the profile resolved, the endpoint call is
\* in flight; the first attempt failed
C12_Witness ==
  /\ op = 6
  /\ attempt = 2
  /\ callState["profiles.beginCreateAndWait"] = "resolved"
  /\ callState["endpoints.beginCreateAndWait"] = "inflight"
  /\ issued["endpoints.beginCreateAndWait"] = 1

(***************************************************************************)
(* C13: the network step's operation has resolved (and only then may the   *)
(* cluster step start) only when the virtual network call and both subnet  *)
(* calls of that same attempt have resolved; the two subnet calls are      *)
(* issued together, and only after the virtual network call of that        *)
(* attempt resolved.  The order in which the two subnet calls complete is  *)
(* free (the witness has the db subnet first).  Checked under Spec.        *)
(***************************************************************************)
C13_Subnets == {"subnets.app", "subnets.db"}

C13_NetworkStepCompletion ==
  /\ (op = 2 /\ pc \in {"retry_returned", "next_step"}) =>
       /\ \A c \in StepCalls(2) : callState[c] = "resolved"
       /\ pending = {}
       /\ C13_Subnets \subseteq created
  /\ stepRuns[3] > 0 =>
       stepDone[2] /\ StepCalls(2) \subseteq created
  /\ \A c \in C13_Subnets :
       callState[c] # "idle" =>
         /\ callState["virtualNetworks.beginCreateOrUpdateAndWait"] = "resolved"
         /\ \A d \in C13_Subnets : callState[d] # "idle"
         /\ issued["subnets.app"] = issued["subnets.db"]
  /\ callState["virtualNetworks.beginCreateOrUpdateAndWait"] \in {"inflight", "rejected"} =>
       \A c \in C13_Subnets : callState[c] = "idle"

\* the db subnet call resolved first, the app subnet call is still awaited
C13_Witness ==
  /\ op = 2
  /\ pc = "op_wait"
  /\ pending = {"subnets.app"}
  /\ callState["subnets.db"] = "resolved"
  /\ callState["subnets.app"] = "inflight"

C15_SubnetRejected(c) ==
  /\ pc = "op_wait" /\ op = 2 /\ stage = 2
  /\ callState[c] = "inflight"
  /\ callState'[c] = "rejected"

C15_SubnetFailureFailsStep ==
  /\ [][ \A c \in C13_Subnets :
           C15_SubnetRejected(c) =>
             /\ pc' \in {"retry_delay", "retry_loop"}
             /\ pending' = {}
             /\ CountEv("fail")' = CountEv("fail") + 1
             /\ lastError' # <<>>
             /\ lastError'[1].message = <<history'[Len(history) + 1].val>>
             /\ \A d \in C13_Subnets \ {c} : callState'[d] = callState[d] ]_vars
  /\ [](  (phase = "Failed" /\ stepIndex = 2) =>
            /\ stderrErrors[1].message = StepFailureMessage(2)
            /\ stderrErrors[2].message[2] = "Create Virtual Network and Subnets"
            /\ stderrErrors[2].cause = lastError
            /\ exitCode = 1
            /\ \A j \in 3..6 : stepRuns[j] = 0 )

\* the network step failed for good on the app subnet while the db subnet
\* call of the last attempt was still in flight
C15_Witness ==
  /\ phase = "Failed"
  /\ stepIndex = 2
  /\ CountEv("fail") = 3
  /\ callState["subnets.app"] = "rejected"
  /\ callState["subnets.db"] = "inflight"

(***************************************************************************)
(* C16: nothing is rolled back.  No step of the program removes a created  *)
(* resource or issues a call other than the create/update calls; once a    *)
(* failure is being propagated no call is issued at all; and when the      *)
(* deployment has failed, the resources of every step that returned and    *)
(* every call that resolved in the failed step are still created.          *)
(* Checked under Spec.                                                     *)
(***************************************************************************)
C16_NoRollback ==
  /\ [][ /\ created \subseteq created'
         /\ everIssued \subseteq everIssued'
         /\ everIssued' \subseteq Calls
         /\ (pc \in {"retry_threw", "deploy_catch", "exited"} =>
               /\ everIssued' = everIssued
               /\ issued' = issued
               /\ pending' = pending) ]_vars
  /\ []( (phase = "Failed" /\ stepIndex >= 1) =>
           /\ \A j \in 1..(stepIndex - 1) : StepCalls(j) \subseteq created
           /\ \A c \in Calls : callState[c] = "resolved" => c \in created
           /\ everIssued \subseteq Calls )

\* the CDN endpoint failed for good; the profile created in the last attempt
\* and everything from the earlier steps is still there
C16_Witness ==
  /\ phase = "Failed"
  /\ stepIndex = 6
  /\ callState["profiles.beginCreateAndWait"] = "resolved"
  /\ callState["endpoints.beginCreateAndWait"] = "rejected"
  /\ created = ProvisioningCalls \ {"endpoints.beginCreateAndWait"}


(***************************************************************************)
(* C17: the database password never appears in a log line or in an error   *)
(* message: every line printed and every error raised or printed is the    *)
(* same under any other value of the password (the remote outcomes being   *)
(* the same), and the password's value is no part of any of them.          *)
(***************************************************************************)
C17_Passwords == {v \in EnvValues : Truthy(v)}

C17_WithPassword(p) == config([env EXCEPT !["DB_PASSWORD"] = p])

\* the console and the errors of this run, had the password been p
C17_Output(p) ==
  [console |-> [k \in DOMAIN log |-> Render(log[k], C17_WithPassword(p))],
   missing |-> stderrMissing,
   raised  |-> [k \in DOMAIN thrown |-> RenderError(thrown[k], C17_WithPassword(p))],
   printed |-> [k \in DOMAIN stderrErrors |->
                  RenderError(stderrErrors[k], C17_WithPassword(p))]]

RECURSIVE C17_ErrorParts(_)
C17_ErrorParts(error) ==
  {error.message[k] : k \in DOMAIN error.message}
    \cup UNION {C17_ErrorParts(error.cause[k]) : k \in DOMAIN error.cause}

\* every piece of text in an output
C17_Parts(out) ==
  UNION {{out.console[k].text[j] : j \in DOMAIN out.console[k].text}
           \cup UNION {C17_ErrorParts(out.console[k].err[j]) :
                          j \in DOMAIN out.console[k].err} : k \in DOMAIN out.console}
    \cup {out.missing[k] : k \in DOMAIN out.missing}
    \cup UNION {C17_ErrorParts(out.raised[k]) : k \in DOMAIN out.raised}
    \cup UNION {C17_ErrorParts(out.printed[k]) : k \in DOMAIN out.printed}

C17_PasswordNeverPrinted ==
  Truthy(env["DB_PASSWORD"]) =>
    /\ \A p \in C17_Passwords : C17_Output(p) = C17_Output(env["DB_PASSWORD"])
    /\ env["DB_PASSWORD"] \notin C17_Parts(C17_Output(env["DB_PASSWORD"]))

\* the database step ran with the second password, its call (which carries the
\* password) was issued and failed, and the failure was logged and printed
C17_Witness ==
  /\ env["DB_PASSWORD"] = "value2"
  /\ env["AZURE_SUBSCRIPTION_ID"] = "value"
  /\ pc = "exited"
  /\ StepFailed(4)
  /\ "servers.beginCreateAndWait" \in everIssued
  /\ Len(log) > Len(StepStartLines(4))
  /\ Len(stderrErrors) = 2


(***************************************************************************)
(* C18: when retry has exhausted its attempts, the error it throws wraps   *)
(* the failure of the last attempt (attempt maxRetries), whatever the      *)
(* failures of the earlier attempts were.  Checked under RetrySpec.        *)
(***************************************************************************)
\* the failure events of the current call, in order
C18_Failures == SelectSeq(history, LAMBDA ev : ev.ev = "fail")

C18_WrapsLastFailure ==
  (pc = "retry_threw" /\ maxRetries >= 1) =>
    /\ Len(C18_Failures) = maxRetries
    /\ C18_Failures[maxRetries].n = maxRetries
    /\ Len(thrown) = 1
    /\ thrown[1].name = "InfrastructureError"
    /\ thrown[1].message = RetryFailureMessage(OperationName(op), maxRetries)
    /\ thrown[1].cause = <<RemoteError(C18_Failures[maxRetries].val)>>

\* three attempts failed with three different errors; the last one is wrapped
C18_Witness ==
  /\ pc = "retry_threw"
  /\ maxRetries = 3
  /\ Len(C18_Failures) = 3
  /\ C18_Failures[1].val = "e1"
  /\ C18_Failures[2].val = "e2"
  /\ C18_Failures[3].val = "e3"
  /\ thrown[1].cause = <<RemoteError("e3")>>


(***************************************************************************)
(* C19: the connectivity check does not go through retry: once deploy has  *)
(* begun, subscriptions.get has been issued exactly once; when that one    *)
(* call fails the deployment fails at once, with no second call, no retry  *)
(* attempt or delay recorded or announced, and with the remote failure     *)
(* itself (not an error of retry) as the cause.                            *)
(***************************************************************************)
C19_ValidationNotRetried ==
  /\ issued[ValidateCall] = (IF phase = "NotStarted" THEN 0 ELSE 1)
  /\ stepIndex = 0 => /\ history = <<>>
                      /\ attempt = 1
                      /\ pc # "retry_delay"
                      /\ \A k \in DOMAIN log : log[k] # RetryingLine /\ log[k].err = <<>>
  /\ connection = "failed" =>
       /\ stepIndex = 0
       /\ pc \in {"deploy_catch", "exited"}
       /\ \E e \in Errors :
            thrown = <<InfrastructureError(
                         <<"Failed to connect to Azure. Please check your credentials.">>,
                         <<RemoteError(e)>>)>>
       /\ pc = "exited" => exitCode = FailureExitCode /\ stderrErrors = Printed(thrown[1])

\* the one connectivity call failed and the process has ended
C19_Witness ==
  /\ connection = "failed"
  /\ pc = "exited"
  /\ issued[ValidateCall] = 1
  /\ Len(stderrErrors) = 2
  /\ stderrErrors[2] = RemoteError("e2")


(***************************************************************************)
(* C20: called with maxRetries <= 0, retry makes no attempt of the         *)
(* operation and no delay: no remote call is issued, nothing is logged,    *)
(* and it throws its error at once, with no cause.  Checked under          *)
(* RetrySpec.                                                              *)
(***************************************************************************)
C20_NoAttemptWithoutRetries ==
  maxRetries <= 0 =>
    /\ history = <<>>
    /\ everIssued = {}
    /\ \A c \in Calls : issued[c] = 0
    /\ pending = {} /\ orphans = {} /\ created = {}
    /\ log = <<>>
    /\ attempt = 1
    /\ lastError = <<>>
    /\ retValue = "none"
    /\ pc \in {"retry_loop", "retry_threw"}
    /\ pc = "retry_threw" =>
         thrown = <<InfrastructureError(
                      RetryFailureMessage(OperationName(op), maxRetries), <<>>)>>

\* retry was called with maxRetries = 0 and has thrown
C20_Witness ==
  /\ maxRetries = 0
  /\ pc = "retry_threw"
  /\ Len(thrown) = 1
  /\ thrown[1].cause = <<>>
  /\ thrown[1].message[4] = "0"


(***************************************************************************)
(* C21: when every remote call eventually completes, every run of deploy() *)
(* eventually reaches Succeeded or Failed; and in every run each step is   *)
(* called at most once and its operation attempted at most maxRetries (3)  *)
(* times, each remote call being issued at most once per attempt, so that  *)
(* at most 6 * maxRetries attempts are made in total.  Checked under       *)
(* FairSpec.                                                               *)
(***************************************************************************)
C21_AttemptsBounded ==
  /\ \A i \in Steps : stepRuns[i] <= 1
  /\ CountEv("attempt") <= retryConfig.maxRetries
  /\ \A c \in ProvisioningCalls : issued[c] <= CountEv("attempt")
  /\ attemptsTotal <= stepIndex * retryConfig.maxRetries
  /\ attemptsTotal <= Cardinality(Steps) * retryConfig.maxRetries

C21_DeployCalled == phase # "NotStarted"

C21_DeployEnded == phase \in {"Succeeded", "Failed"}

C21_TerminatesWithinBounds ==
  /\ []C21_AttemptsBounded
  /\ C21_DeployCalled ~> C21_DeployEnded
  /\ [][C21_DeployEnded => (phase' = phase /\ attemptsTotal' = attemptsTotal)]_vars

\* deploy succeeded after every step's operation took all its attempts
C21_Witness ==
  /\ phase = "Succeeded"
  /\ \A i \in Steps : stepDone[i]
  /\ attemptsTotal = Cardinality(Steps) * retryConfig.maxRetries

====
